---------------------------- MODULE Spec2Model ----------------------------
(***************************************************************************)
(* Forest telemetry backend: the ingest / alert pipeline.                  *)
(*                                                                         *)
(* The repository holds three independent express programs:                *)
(*   - the main ingest server (src/unnamed/part_000, lines 77-245):        *)
(*     header-authenticated ingest, in-memory store, alerts, snapshot      *)
(*     file, remote table;                                                 *)
(*   - the header/raw-body variant (src/server.js);                        *)
(*   - the envelope variant (src/unnamed/part_000, lines 1-74).            *)
(* Each is modelled by its own actions over its own variables.             *)
(*                                                                         *)
(* Node runs every handler to its first await without interleaving, so an  *)
(* action is one such run-to-completion segment.                           *)
(***************************************************************************)
EXTENDS Integers, Sequences, FiniteSets, TLC

VARIABLES
    nodes,          \* store.nodes : key -> [latest, history]
    alerts,         \* store.alerts : sequence, head is the newest
    loaded,         \* has the startup load (store = await readDataFile) run
    dataFile,       \* the snapshot file the process finds at startup
    pendingWrites,  \* number of snapshot writes started by persist() and not settled
    earlyWrites,    \* the snapshots persist() took before the startup load
    inflight,       \* ingest handlers suspended at "await ...insert([supaRow])"
    remoteRows,     \* number of rows stored in the remote table forest_telemetry
    now,            \* Date.now()
    nreq,           \* number of requests handled so far
    resp,           \* the last response sent
    metricRuns,     \* number of times the derived metrics were computed
    accepted,       \* history variable: per key first seen by ingest, the samples
                    \* of the readings this process committed for it, in order
    rawBodyBuffer,  \* server.js: the bytes the body parser's verify hook saw last
    hdrInflight,    \* server.js: handlers suspended at "await ...insert(payload)"
    envInflight     \* envelope server: handlers suspended at "await ...insert"

vars == <<nodes, alerts, loaded, dataFile, pendingWrites, earlyWrites, inflight,
          remoteRows, now, nreq, resp, metricRuns, accepted, rawBodyBuffer,
          hdrInflight,
          envInflight>>

\* what belongs to the main server alone, and what to the other two programs
mainVars == <<nodes, alerts, loaded, dataFile, pendingWrites, earlyWrites, inflight,
              now, metricRuns, accepted>>
otherVars == <<rawBodyBuffer, hdrInflight, envInflight>>

-----------------------------------------------------------------------------
(* Bounds of the model *)

MaxReq == 2
MaxReqFull == 2
MaxClock == 1

(* Program constants *)

HISTORY_MAX == 500
ALERTS_MAX == 300
PFFI_ALERT == 80
DB_ALERT == 100

DEVICE_SECRET == "17surbhi"

Null == "<null>"

EmptyFun == [x \in {} |-> x]

-----------------------------------------------------------------------------
(* utils.js: computePFFI.  Every contribution is kept as a numerator over  *)
(* 4500 (the common denominator of /25, /90, /500 and /100), the weights   *)
(* as numerators over 20, so the arithmetic is exact.                      *)

Min(a, b) == IF a < b THEN a ELSE b
Max(a, b) == IF a > b THEN a ELSE b
Clamp01(x) == Max(0, Min(4500, x))

Tf(temp_c) == Clamp01((temp_c - 15) * 180)
Hf(hum_pct) == 4500 - Clamp01((hum_pct - 10) * 50)
Smoke(mq2) == Clamp01(mq2 * 9)
Gas(mq135) == Clamp01(mq135 * 9)
Flame(flame1, flame2) == IF flame1 \/ flame2 THEN 4500 ELSE 0
Sound(sound_confidence) == sound_confidence * 45

\* raw, as a numerator over 90000
RawPFFI(r) ==
    5 * Tf(r.temp_c) + 4 * Hf(r.hum_pct) + 5 * Smoke(r.mq2) + 2 * Gas(r.mq135)
      + 3 * Flame(r.flame1, r.flame2) + 2 * Sound(r.sound_confidence)

\* Math.round(Math.min(1, raw) * 100); Math.round rounds half up
computePFFI(r) == (Min(90000, RawPFFI(r)) + 450) \div 900


-----------------------------------------------------------------------------
(* The main server's ingest handler, in-memory part.                       *)

\* A request body is a JSON object: a function from the keys it carries to
\* their values.  b[k] is undefined exactly when k is not in DOMAIN b.
Has(b, k) == k \in DOMAIN b

\* Number(v): the bodies of this model carry JSON numbers, which Number
\* returns as they are.
ToNumber(v) == v

\* v || d for an optional key
OrElse(b, k, d) == IF Has(b, k) THEN b[k] ELSE d

\* flame ? 1 : 0
Truthy01(v) == IF v THEN 1 ELSE 0

\* The record built from a validated body b at time t.  The dew point, the
\* vapour pressure deficit and the heat index are carried in "computed" too;
\* they are read by no branch and are left out.  battery_pct is <<v>> or,
\* for null, <<>>.
MkRecord(b, t) ==
    LET temp_c == ToNumber(b.temp_c)
        hum_pct == ToNumber(b.hum_pct)
        pffi == computePFFI([temp_c |-> temp_c, hum_pct |-> hum_pct,
                             mq2 |-> ToNumber(b.mq2), mq135 |-> ToNumber(b.mq135),
                             flame1 |-> b.flame1, flame2 |-> b.flame2,
                             sound_confidence |-> OrElse(b, "sound_confidence", 0)])
    IN  [zoneId |-> b.zoneId,
         nodeId |-> b.nodeId,
         temp_c |-> temp_c,
         hum_pct |-> hum_pct,
         mq2 |-> ToNumber(b.mq2),
         mq135 |-> ToNumber(b.mq135),
         flame1 |-> Truthy01(b.flame1),
         flame2 |-> Truthy01(b.flame2),
         dB |-> ToNumber(b.dB),
         sound_type |-> OrElse(b, "sound_type", Null),
         sound_confidence |-> OrElse(b, "sound_confidence", 0),
         battery_pct |-> IF Has(b, "battery_pct") THEN <<b.battery_pct>> ELSE <<>>,
         timestamp |-> ToNumber(b.timestamp),
         computed |-> [pffi |-> pffi, received_at |-> t]]

\* `${record.zoneId}/${record.nodeId}`
KeyOf(record) == record.zoneId \o "/" \o record.nodeId

CompactSample(record) ==
    [timestamp |-> record.timestamp, temp_c |-> record.temp_c,
     pffi |-> record.computed.pffi, dB |-> record.dB]

\* history.push(sample); if (history.length > 500) history.shift()
PushHistoryNoShift(h, s) == Append(h, s)
PushHistory(h, s) ==
    LET h2 == Append(h, s)
    IN  IF Len(h2) > HISTORY_MAX THEN Tail(h2) ELSE h2

\* store.nodes[key] = store.nodes[key] || { history: [] }; latest = record;
\* history push and shift
UpsertNodeKeepsLatest(ns, record) ==
    LET key == KeyOf(record)
        old == IF key \in DOMAIN ns THEN ns[key].history ELSE <<>>
        new == [latest |-> IF key \in DOMAIN ns THEN ns[key].latest ELSE record,
                history |-> PushHistory(old, CompactSample(record))]
    IN  [k \in DOMAIN ns \cup {key} |-> IF k = key THEN new ELSE ns[k]]
UpsertNode(ns, record) ==
    LET key == KeyOf(record)
        old == IF key \in DOMAIN ns THEN ns[key].history ELSE <<>>
        new == [latest |-> record,
                history |-> PushHistory(old, CompactSample(record))]
    IN  [k \in DOMAIN ns \cup {key} |-> IF k = key THEN new ELSE ns[k]]

\* record.computed.pffi >= 80 || record.flame1 || record.flame2 || record.dB >= 100
AlertNeededStrict(record) ==
    \/ record.computed.pffi > PFFI_ALERT
    \/ record.flame1 = 1
    \/ record.flame2 = 1
    \/ record.dB > DB_ALERT
AlertNeeded(record) ==
    \/ record.computed.pffi >= PFFI_ALERT
    \/ record.flame1 = 1
    \/ record.flame2 = 1
    \/ record.dB >= DB_ALERT

\* The alert built at time t; its id is `a_${Date.now()}`, kept as the number.
MkAlert(record, t) ==
    [id |-> t, zoneId |-> record.zoneId, nodeId |-> record.nodeId,
     pffi |-> record.computed.pffi, dB |-> record.dB,
     sound_type |-> record.sound_type, timestamp |-> t,
     acknowledged |-> FALSE,
     type |-> IF record.flame1 = 1 \/ record.flame2 = 1 THEN "fire" ELSE "warning"]

\* alerts.unshift(alert); if (alerts.length > 300) alerts.pop()
PushAlertNoPop(as, a) == <<a>> \o as
PushAlertAtTail(as, a) ==
    LET a2 == Append(as, a)
    IN  IF Len(a2) > ALERTS_MAX THEN Tail(a2) ELSE a2
PushAlert(as, a) ==
    LET a2 == <<a>> \o as
    IN  IF Len(a2) > ALERTS_MAX THEN SubSeq(a2, 1, Len(a2) - 1) ELSE a2

RaiseAlert(as, record, t) ==
    IF AlertNeeded(record) THEN PushAlert(as, MkAlert(record, t)) ELSE as

\* The in-memory commit of one validated body at time t
Commit(st, b, t) ==
    LET record == MkRecord(b, t)
    IN  [nodes |-> UpsertNode(st.nodes, record),
         alerts |-> RaiseAlert(st.alerts, record, t)]

EmptyStore == [nodes |-> EmptyFun, alerts |-> <<>>]

-----------------------------------------------------------------------------
(* The snapshot file of an earlier run.  The file is written by persist()  *)
(* only, so what a process finds at startup is a store an earlier process  *)
(* reached.  The stores below are built by Commit itself from the readings *)
(* PreBody(1), PreBody(2), ... taken at the clock values before 0:         *)
(* PreHistLen calm readings of node z1/n1, then PreAlertLen flame readings *)
(* of node z1/n2 (one below each capacity), then one more of each (at      *)
(* capacity).                                                              *)

PreHistLen == HISTORY_MAX - 1
PreAlertLen == ALERTS_MAX - 1
PreNearFull == PreHistLen + PreAlertLen
PreFull == PreNearFull + 2

PreTime(i) == i - PreFull - 1

PreBody(i) ==
    LET calm == i <= PreHistLen \/ i = PreNearFull + 1
    IN  [zoneId |-> "z1", nodeId |-> IF calm THEN "n1" ELSE "n2",
         temp_c |-> 20, hum_pct |-> 55, mq2 |-> 100, mq135 |-> 100,
         flame1 |-> ~calm, flame2 |-> FALSE, dB |-> 60,
         timestamp |-> PreTime(i)]

\* The store after the readings lo..hi were committed, in order, to st
RECURSIVE CommitRange(_, _, _)
CommitRange(st, lo, hi) ==
    IF lo > hi THEN st
    ELSE IF lo = hi THEN Commit(st, PreBody(lo), PreTime(lo))
    ELSE LET mid == (lo + hi) \div 2
             left == CommitRange(st, lo, mid)
         IN  IF DOMAIN left.nodes = {} THEN st ELSE CommitRange(left, mid + 1, hi)

StoreSmall == CommitRange(EmptyStore, PreFull, PreFull)
StoreNearFull == CommitRange(EmptyStore, 1, PreNearFull)
StoreFull == CommitRange(StoreNearFull, PreNearFull + 1, PreFull)

\* dataFile names the snapshot the file holds at startup
SmallFiles == {"none", "small"}
BigFiles == {"nearfull", "full"}

FileExists(f) == f # "none"
FileContent(f) ==
    CASE f = "small" -> StoreSmall
      [] f = "nearfull" -> StoreNearFull
      [] f = "full" -> StoreFull
      [] OTHER -> EmptyStore

NewestPreAlertId == PreTime(PreFull)
OldestPreAlertId == PreTime(PreHistLen + 1)

-----------------------------------------------------------------------------
(* Requests *)

Reading(n, t, h, g1, g2, f1, f2, db, ts) ==
    [zoneId |-> "z1", nodeId |-> n, temp_c |-> t, hum_pct |-> h, mq2 |-> g1,
     mq135 |-> g2, flame1 |-> f1, flame2 |-> f2, dB |-> db, timestamp |-> ts]

Without(b, K) == [k \in DOMAIN b \ K |-> b[k]]

BLow == Reading("n1", 20, 55, 100, 100, FALSE, FALSE, 60, 10)
BRisk80 == Reading("n1", 40, 10, 500, 500, FALSE, FALSE, 60, 11)
BRisk79 == Reading("n1", 40, 10, 500, 450, FALSE, FALSE, 99, 12)
BFlame ==
    Reading("n2", 20, 55, 100, 100, FALSE, TRUE, 60, 13)
      @@ [sound_type |-> "chainsaw", battery_pct |-> 90]
BLoud == Reading("n2", 20, 55, 100, 100, FALSE, FALSE, 100, 14)

ValidBodies == {BRisk80, BRisk79, BFlame, BLoud}

InvalidBodies ==
    { Without(BRisk80, {"hum_pct"}),
      Without(BFlame, {"dB", "timestamp"}),
      EmptyFun }

Bodies == ValidBodies \cup InvalidBodies

\* The bytes of a request body: the JSON object they parse to, and how the
\* sender serialized it ("compact" is what JSON.stringify writes; "spaced" is
\* any other serialization of the same object).
Formats == {"compact", "spaced"}
Bytes(obj, fmt) == [obj |-> obj, fmt |-> fmt]
JsonParse(bytes) == bytes.obj
JsonStringify(obj) == Bytes(obj, "compact")

\* HMAC-SHA256 as an ideal keyed hash: equal digests only for equal key and
\* equal bytes.  <<>> is an absent header.
computeHmacHex(secret, data) == <<secret, data>>
NoHeader == <<>>
NoDevice == ""

Devices == {"node_01", "node_99"}

SigsFor(bytes) ==
    {NoHeader, computeHmacHex("wrong", bytes), computeHmacHex(DEVICE_SECRET, bytes)}

AuthProbes(bytes) ==
    { [dev |-> d, sig |-> s, raw |-> bytes] :
        d \in Devices \cup {NoDevice}, s \in SigsFor(bytes) }

MainRequests ==
    { [dev |-> "node_01", sig |-> computeHmacHex(DEVICE_SECRET, Bytes(b, "compact")),
       raw |-> Bytes(b, "compact")] : b \in Bodies }
    \cup AuthProbes(Bytes(BFlame, "compact"))
    \cup { [dev |-> "node_01", sig |-> computeHmacHex(DEVICE_SECRET, Bytes(BFlame, "spaced")),
            raw |-> Bytes(BFlame, "spaced")] }

-----------------------------------------------------------------------------
(* The main server *)

Store == [nodes |-> nodes, alerts |-> alerts]

NoResp == [kind |-> "none", status |-> 0, error |-> "", pffi |-> <<>>]
Rejected(kind, status, error) ==
    [kind |-> kind, status |-> status, error |-> error, pffi |-> <<>>]
Ok(kind, pffi) == [kind |-> kind, status |-> 200, error |-> "", pffi |-> pffi]

RequiredMain ==
    <<"zoneId", "nodeId", "temp_c", "hum_pct", "mq2", "mq135", "flame1", "flame2",
      "dB", "timestamp">>

\* for (const k of required) if (typeof b[k] === "undefined") return ...:
\* the index of the first required key the body lacks, 0 when it lacks none
Missing(required, b) == {i \in 1..Len(required) : ~Has(b, required[i])}
FirstMissingAny(required, b) ==
    IF Missing(required, b) = {} THEN 0
    ELSE CHOOSE i \in Missing(required, b) : \A j \in Missing(required, b) : i >= j
FirstMissing(required, b) ==
    IF Missing(required, b) = {} THEN 0
    ELSE CHOOSE i \in Missing(required, b) : \A j \in Missing(required, b) : i <= j

\* The signature check of the main server: the HMAC of JSON.stringify(req.body)
\* under the one DEVICE_SECRET; the device header is only required to be there.
MainSigOkAnySecret(req) == req.sig # NoHeader
MainSigOk(req) ==
    computeHmacHex(DEVICE_SECRET, JsonStringify(JsonParse(req.raw))) = req.sig

\* persist(): writeJson serializes the store when it is called; the write
\* itself lands, or fails, later.  The file is read once, by the startup
\* load: a snapshot taken before the load is kept as one the load may find
\* in the file, a later one is read by nothing.
Persisted(st) == IF loaded THEN earlyWrites ELSE earlyWrites \cup {st}

\* The number of requests a run handles: runs from a snapshot near capacity
\* have their own bound.
ReqLimit == IF dataFile \in BigFiles THEN MaxReqFull ELSE MaxReq

\* The history variable after record was committed: a key is followed from
\* the ingest that created its node record.
Accept(record) ==
    LET key == KeyOf(record)
        sample == CompactSample(record)
    IN  IF key \in DOMAIN accepted
        THEN [accepted EXCEPT ![key] = Append(@, sample)]
        ELSE IF key \notin DOMAIN nodes
        THEN [k \in DOMAIN accepted \cup {key} |->
                 IF k = key THEN <<sample>> ELSE accepted[k]]
        ELSE accepted

\* POST /ingest up to its await.  The timestamps of the bodies are numbers in
\* the range of Date, so building supaRow.ts (toISOString) does not throw.
IngestMain(req) ==
    /\ nreq < ReqLimit
    /\ nreq' = nreq + 1
    /\ LET b == JsonParse(req.raw)
           m == FirstMissing(RequiredMain, b)
       IN  IF req.sig = NoHeader \/ req.dev = NoDevice
           THEN /\ resp' = Rejected("ingest", 400, "missing headers")
                /\ UNCHANGED <<nodes, alerts, pendingWrites, earlyWrites, inflight, metricRuns,
                              accepted>>
           ELSE IF ~MainSigOk(req)
           THEN /\ resp' = Rejected("ingest", 401, "invalid signature")
                /\ UNCHANGED <<nodes, alerts, pendingWrites, earlyWrites, inflight, metricRuns,
                              accepted>>
           ELSE IF m # 0
           THEN /\ resp' = Rejected("ingest", 400, "missing " \o RequiredMain[m])
                /\ UNCHANGED <<nodes, alerts, pendingWrites, earlyWrites, inflight, metricRuns,
                              accepted>>
           ELSE LET st == Commit(Store, b, now)
                    record == MkRecord(b, now)
                IN  /\ metricRuns' = metricRuns + 1
                    /\ accepted' = Accept(record)
                    /\ nodes' = st.nodes
                    /\ alerts' = st.alerts
                    /\ pendingWrites' = pendingWrites + 1
                    /\ earlyWrites' = Persisted(st)
                    /\ inflight' = Append(inflight, [dev |-> req.dev, record |-> record])
                    /\ UNCHANGED resp
    /\ UNCHANGED <<loaded, dataFile, remoteRows, now, otherVars>>

RemoveAt(q, i) == SubSeq(q, 1, i - 1) \o SubSeq(q, i + 1, Len(q))

\* The insert resolves with { error: null }: the row is stored.
InsertStored(i) ==
    /\ i \in 1..Len(inflight)
    /\ remoteRows' = remoteRows + 1
    /\ resp' = Ok("ingest", <<inflight[i].record.computed.pffi>>)
    /\ inflight' = RemoveAt(inflight, i)
    /\ UNCHANGED <<nodes, alerts, loaded, dataFile, pendingWrites, earlyWrites, now, nreq,
                   metricRuns, accepted, otherVars>>

\* The insert resolves with { error }: console.error, then the same response.
InsertError(i) ==
    /\ i \in 1..Len(inflight)
    /\ resp' = Ok("ingest", <<inflight[i].record.computed.pffi>>)
    /\ inflight' = RemoveAt(inflight, i)
    /\ UNCHANGED <<nodes, alerts, loaded, dataFile, pendingWrites, earlyWrites, remoteRows,
                   now, nreq, metricRuns, accepted, otherVars>>

\* The insert rejects: the handler's catch answers 500.
InsertThrows(i) ==
    /\ i \in 1..Len(inflight)
    /\ resp' = Rejected("ingest", 500, "server error")
    /\ inflight' = RemoveAt(inflight, i)
    /\ UNCHANGED <<nodes, alerts, loaded, dataFile, pendingWrites, earlyWrites, remoteRows,
                   now, nreq, metricRuns, accepted, otherVars>>

\* store.alerts.find(x => x.id === id): the index of the first alert with
\* this id, 0 when there is none
FindAlert(as, id) ==
    LET hits == {i \in 1..Len(as) : as[i].id = id}
    IN  IF hits = {} THEN 0 ELSE CHOOSE i \in hits : \A j \in hits : i <= j

AckAlertClears(as, i) == [as EXCEPT ![i].acknowledged = ~as[i].acknowledged]
AckAlert(as, i) == [as EXCEPT ![i].acknowledged = TRUE]

Ack(id) ==
    /\ nreq < ReqLimit
    /\ nreq' = nreq + 1
    /\ LET i == FindAlert(alerts, id)
       IN  IF i = 0
           THEN /\ resp' = Rejected("ack", 404, "not found")
                /\ UNCHANGED <<alerts, pendingWrites, earlyWrites>>
           ELSE /\ alerts' = AckAlert(alerts, i)
                /\ pendingWrites' = pendingWrites + 1
                /\ earlyWrites' = Persisted([nodes |-> nodes, alerts |-> alerts'])
                /\ resp' = Ok("ack", <<>>)
    /\ UNCHANGED <<nodes, loaded, dataFile, inflight, remoteRows, now, metricRuns, accepted, otherVars>>

\* readDataFile: the file is created empty when it does not exist, then
\* read; what the read finds is the startup content or a snapshot written
\* since.
ReadDataFile(f) == IF FileExists(f) THEN FileContent(f) ELSE EmptyStore

LoadResults == {ReadDataFile(dataFile)} \cup earlyWrites

\* store = await readDataFile(...), some time after the server started
LoadOk(st) ==
    /\ ~loaded
    /\ st \in LoadResults
    /\ loaded' = TRUE
    /\ nodes' = st.nodes
    /\ alerts' = st.alerts
    /\ earlyWrites' = {}
    /\ UNCHANGED <<dataFile, pendingWrites, inflight, remoteRows, now, nreq, resp,
                   metricRuns, accepted, otherVars>>

\* readDataFile's catch: the file cannot be read, the store starts empty
LoadErr ==
    /\ ~loaded
    /\ loaded' = TRUE
    /\ nodes' = EmptyStore.nodes
    /\ alerts' = EmptyStore.alerts
    /\ earlyWrites' = {}
    /\ UNCHANGED <<dataFile, pendingWrites, inflight, remoteRows, now, nreq, resp,
                   metricRuns, accepted, otherVars>>

\* A snapshot write lands ...
WriteLands ==
    /\ pendingWrites > 0
    /\ pendingWrites' = pendingWrites - 1
    /\ UNCHANGED <<nodes, alerts, loaded, dataFile, earlyWrites, inflight, remoteRows,
                   now, nreq, resp, metricRuns, accepted, otherVars>>

\* ... or fails: writeDataFile's catch logs it, persist() resolves all the same.
WriteFails ==
    /\ pendingWrites > 0
    /\ pendingWrites' = pendingWrites - 1
    /\ UNCHANGED <<nodes, alerts, loaded, dataFile, earlyWrites, inflight, remoteRows,
                   now, nreq, resp, metricRuns, accepted, otherVars>>

Tick ==
    /\ now < MaxClock
    /\ now' = now + 1
    /\ UNCHANGED <<nodes, alerts, loaded, dataFile, pendingWrites, earlyWrites, inflight,
                   remoteRows, nreq, resp, metricRuns, accepted, otherVars>>

AckIds == {OldestPreAlertId, NewestPreAlertId, 0}

-----------------------------------------------------------------------------
(* src/server.js: device table, HMAC over the captured raw body, insert    *)

DEVICE_SECRETS == [d \in {"node_01"} |-> "17surbhi"]

\* A request without a JSON body: the verify hook is not called and
\* req.body is {}.
NoBytes == Bytes(EmptyFun, "absent")

RequiredHdr ==
    <<"zoneId", "nodeId", "temp_c", "hum_pct", "mq2", "mq135", "flame1", "flame2",
      "dB", "battery_pct", "timestamp">>

HdrBytes ==
    { Bytes(BFlame, "spaced"),
      Bytes(BLoud, "compact"),
      Bytes(Without(BFlame, {"flame2", "battery_pct"}), "compact") }

HdrRequests ==
    { [dev |-> "node_01", sig |-> computeHmacHex(DEVICE_SECRETS["node_01"], bytes),
       raw |-> bytes] : bytes \in HdrBytes }
    \cup AuthProbes(Bytes(BFlame, "compact"))
    \cup { [dev |-> "node_01",
            sig |-> computeHmacHex(DEVICE_SECRETS["node_01"], Bytes(BFlame, "compact")),
            raw |-> NoBytes] }

HdrIngest(req) ==
    /\ nreq < ReqLimit
    /\ nreq' = nreq + 1
    /\ LET buf == IF req.raw = NoBytes THEN rawBodyBuffer ELSE req.raw
           payload == JsonParse(req.raw)
           m == FirstMissing(RequiredHdr, payload)
       IN  /\ rawBodyBuffer' = buf
           /\ IF req.dev = NoDevice
              THEN /\ resp' = Rejected("hdr", 400, "missing deviceId")
                   /\ UNCHANGED hdrInflight
              ELSE IF req.sig = NoHeader
              THEN /\ resp' = Rejected("hdr", 400, "missing signature")
                   /\ UNCHANGED hdrInflight
              ELSE IF req.dev \notin DOMAIN DEVICE_SECRETS
              THEN /\ resp' = Rejected("hdr", 401, "Unknown deviceId")
                   /\ UNCHANGED hdrInflight
              ELSE IF buf = NoBytes
              THEN /\ resp' = Rejected("hdr", 400, "Empty raw body")
                   /\ UNCHANGED hdrInflight
              ELSE IF computeHmacHex(DEVICE_SECRETS[req.dev], buf) # req.sig
              THEN /\ resp' = Rejected("hdr", 401, "invalid signature")
                   /\ UNCHANGED hdrInflight
              ELSE IF m # 0
              THEN /\ resp' = Rejected("hdr", 400, "Missing key: " \o RequiredHdr[m])
                   /\ UNCHANGED hdrInflight
              ELSE /\ hdrInflight' = hdrInflight + 1
                   /\ UNCHANGED resp
    /\ UNCHANGED <<mainVars, remoteRows, envInflight>>

HdrInsertStored ==
    /\ hdrInflight > 0
    /\ hdrInflight' = hdrInflight - 1
    /\ remoteRows' = remoteRows + 1
    /\ resp' = Ok("hdr", <<>>)
    /\ UNCHANGED <<mainVars, nreq, rawBodyBuffer, envInflight>>

HdrInsertError ==
    /\ hdrInflight > 0
    /\ hdrInflight' = hdrInflight - 1
    /\ resp' = Rejected("hdr", 500, "DB insert failed")
    /\ UNCHANGED <<mainVars, remoteRows, nreq, rawBodyBuffer, envInflight>>

HdrInsertThrows ==
    /\ hdrInflight > 0
    /\ hdrInflight' = hdrInflight - 1
    /\ resp' = Rejected("hdr", 500, "server error")
    /\ UNCHANGED <<mainVars, remoteRows, nreq, rawBodyBuffer, envInflight>>

-----------------------------------------------------------------------------
(* src/unnamed/part_000, lines 1-74: the envelope server                   *)

\* An envelope { p, d, s }; a key it lacks is NoPayload, NoDevice, NoHeader.
NoPayload == EmptyFun
CompactPayload ==
    [z |-> "z1", id |-> "n2", t |-> 20, h |-> 55, g1 |-> 100, g2 |-> 100,
     f1 |-> FALSE, f2 |-> TRUE, db |-> 60, b |-> 90, ts |-> 13]

\* hmac.update(JSON.stringify(compactPayload)) under the one DEVICE_SECRET
verifySignature(secret, compactPayload, signature) ==
    computeHmacHex(secret, JsonStringify(compactPayload)) = signature

Envelopes ==
    { [p |-> p, d |-> d, s |-> s] :
        p \in {CompactPayload, NoPayload},
        d \in Devices \cup {NoDevice},
        s \in {NoHeader,
               computeHmacHex("wrong", Bytes(CompactPayload, "compact")),
               computeHmacHex(DEVICE_SECRET, Bytes(CompactPayload, "spaced")),
               computeHmacHex(DEVICE_SECRET, Bytes(CompactPayload, "compact"))} }

EnvIngest(envelope) ==
    /\ nreq < ReqLimit
    /\ nreq' = nreq + 1
    /\ IF envelope.p = NoPayload \/ envelope.d = NoDevice \/ envelope.s = NoHeader
       THEN /\ resp' = Rejected("env", 400, "Invalid packet structure")
            /\ UNCHANGED envInflight
       ELSE IF ~verifySignature(DEVICE_SECRET, envelope.p, envelope.s)
       THEN /\ resp' = Rejected("env", 401, "invalid signature")
            /\ UNCHANGED envInflight
       ELSE /\ envInflight' = envInflight + 1
            /\ UNCHANGED resp
    /\ UNCHANGED <<mainVars, remoteRows, rawBodyBuffer, hdrInflight>>

EnvInsertStored ==
    /\ envInflight > 0
    /\ envInflight' = envInflight - 1
    /\ remoteRows' = remoteRows + 1
    /\ resp' = Ok("env", <<>>)
    /\ UNCHANGED <<mainVars, nreq, rawBodyBuffer, hdrInflight>>

EnvInsertError ==
    /\ envInflight > 0
    /\ envInflight' = envInflight - 1
    /\ resp' = Rejected("env", 500, "insert error")
    /\ UNCHANGED <<mainVars, remoteRows, nreq, rawBodyBuffer, hdrInflight>>

\* The handler has no try/catch: a rejected insert leaves the request unanswered.
EnvInsertThrows ==
    /\ envInflight > 0
    /\ envInflight' = envInflight - 1
    /\ UNCHANGED <<mainVars, remoteRows, nreq, resp, rawBodyBuffer, hdrInflight>>

-----------------------------------------------------------------------------
Init ==
    /\ nodes = EmptyStore.nodes
    /\ alerts = EmptyStore.alerts
    /\ loaded = FALSE
    /\ dataFile \in SmallFiles
    /\ pendingWrites = 0
    /\ earlyWrites = {}
    /\ inflight = <<>>
    /\ remoteRows = 0
    /\ now = 0
    /\ nreq = 0
    /\ resp = NoResp
    /\ metricRuns = 0
    /\ accepted = EmptyFun
    /\ rawBodyBuffer = NoBytes
    /\ hdrInflight = 0
    /\ envInflight = 0

Next ==
    \/ \E req \in MainRequests : IngestMain(req)
    \/ \E i \in 1..Len(inflight) : InsertStored(i)
    \/ \E i \in 1..Len(inflight) : InsertError(i)
    \/ \E i \in 1..Len(inflight) : InsertThrows(i)
    \/ \E id \in AckIds : Ack(id)
    \/ \E st \in LoadResults : LoadOk(st)
    \/ LoadErr
    \/ WriteLands
    \/ WriteFails
    \/ Tick
    \/ \E req \in HdrRequests : HdrIngest(req)
    \/ HdrInsertStored
    \/ HdrInsertError
    \/ HdrInsertThrows
    \/ \E envelope \in Envelopes : EnvIngest(envelope)
    \/ EnvInsertStored
    \/ EnvInsertError
    \/ EnvInsertThrows

Spec == Init /\ [][Next]_vars

(* The main server once the startup load has read a snapshot near or at    *)
(* capacity.                                                               *)

FullRequests ==
    { [dev |-> "node_01", sig |-> computeHmacHex(DEVICE_SECRET, Bytes(b, "compact")),
       raw |-> Bytes(b, "compact")] : b \in {BLow, BRisk80, BFlame} }
    \cup
    { [dev |-> "node_01", sig |-> computeHmacHex("wrong", Bytes(BFlame, "compact")),
       raw |-> Bytes(BFlame, "compact")] }

InitFull ==
    /\ dataFile \in BigFiles
    /\ loaded = TRUE
    /\ nodes = ReadDataFile(dataFile).nodes
    /\ alerts = ReadDataFile(dataFile).alerts
    /\ pendingWrites = 0
    /\ earlyWrites = {}
    /\ inflight = <<>>
    /\ remoteRows = 0
    /\ now = 0
    /\ nreq = 0
    /\ resp = NoResp
    /\ metricRuns = 0
    /\ accepted = EmptyFun
    /\ rawBodyBuffer = NoBytes
    /\ hdrInflight = 0
    /\ envInflight = 0

NextFull ==
    \/ \E req \in FullRequests : IngestMain(req)
    \/ \E i \in 1..Len(inflight) : InsertStored(i)
    \/ \E i \in 1..Len(inflight) : InsertError(i)
    \/ \E i \in 1..Len(inflight) : InsertThrows(i)
    \/ \E id \in AckIds : Ack(id)
    \/ WriteLands
    \/ WriteFails
    \/ Tick

SpecFull == InitFull /\ [][NextFull]_vars

-----------------------------------------------------------------------------
(* Properties *)

\* The last n elements of q
LastN(q, n) == IF Len(q) <= n THEN q ELSE SubSeq(q, Len(q) - n + 1, Len(q))
\* The first n elements of q
FirstN(q, n) == IF Len(q) <= n THEN q ELSE SubSeq(q, 1, n)

\* This step is the synchronous part of a main-server ingest that committed
\* its reading: one more handler waits for the insert.
Committed == Len(inflight') = Len(inflight) + 1
NewEntry == inflight'[Len(inflight')]

\* C1: in every reachable state the history of every node key holds at most
\* 500 entries.
C1_HistoryBounded ==
    \A k \in DOMAIN nodes : Len(nodes[k].history) <= HISTORY_MAX

\* A history at capacity whose oldest sample has been evicted
C1_Witness ==
    /\ dataFile = "nearfull"
    /\ Len(nodes["z1/n1"].history) = HISTORY_MAX
    /\ nodes["z1/n1"].history[1].timestamp > PreTime(1)

\* C2: for a key first seen by ingest, after n committed readings the history
\* is exactly the samples of the last min(n, 500) of them, in commit order.
C2_HistoryIsLastAccepted ==
    \A k \in DOMAIN accepted :
        /\ k \in DOMAIN nodes
        /\ nodes[k].history = LastN(accepted[k], HISTORY_MAX)

\* C3: in every reachable state the alert list holds at most 300 entries.
C3_AlertsBounded == Len(alerts) <= ALERTS_MAX

\* A list at capacity that has taken a new alert
C3_Witness ==
    /\ dataFile = "full"
    /\ Len(alerts) = ALERTS_MAX
    /\ alerts[1].id >= 0

\* C4: an ingest that raises an alert puts it at the head and keeps the
\* earlier alerts behind it in their order, dropping exactly the tail when
\* the list was at capacity; creation times never increase from head to tail.
C4_NewestFirst ==
    \A i \in 1..(Len(alerts) - 1) : alerts[i].timestamp >= alerts[i + 1].timestamp

C4_PrependStep ==
    (Committed /\ alerts' # alerts) =>
        /\ Len(alerts') >= 1
        /\ alerts'[1].timestamp = now
        /\ alerts'[1].nodeId = NewEntry.record.nodeId
        /\ Tail(alerts') =
             IF Len(alerts) = ALERTS_MAX THEN SubSeq(alerts, 1, ALERTS_MAX - 1)
             ELSE alerts

C4_AlertsMostRecentFirst == [][C4_PrependStep]_vars /\ []C4_NewestFirst

\* The tail of a list at capacity has been dropped for a newer alert
C4_Witness ==
    /\ dataFile = "full"
    /\ Len(alerts) = ALERTS_MAX
    /\ alerts[1].timestamp >= 0
    /\ alerts[ALERTS_MAX].id > OldestPreAlertId

\* C5: acknowledging an id that is in the list sets the acknowledged flag of
\* the (first) alert with that id and answers 200, and doing it again changes
\* nothing; an id that is not in the list answers 404 and changes neither
\* the alerts nor the node records.
C5_AckStep ==
    \A id \in AckIds : Ack(id) =>
        LET hits == {i \in 1..Len(alerts) : alerts[i].id = id}
        IN  IF hits = {}
            THEN /\ resp'.status = 404
                 /\ UNCHANGED <<nodes, alerts>>
            ELSE /\ resp'.status = 200
                 /\ nodes' = nodes
                 /\ Len(alerts') = Len(alerts)
                 /\ \E i \in hits :
                       /\ alerts'[i].acknowledged
                       /\ \A j \in 1..Len(alerts) :
                             alerts'[j] = IF j = i THEN [alerts[j] EXCEPT !.acknowledged = TRUE]
                                          ELSE alerts[j]
                       /\ alerts[i].acknowledged => alerts' = alerts

C5_Acknowledge == [][C5_AckStep]_vars

\* An acknowledged alert, and a later acknowledge request answered 404
C5_Witness ==
    /\ resp.kind = "ack"
    /\ resp.status = 404
    /\ \E i \in 1..Len(alerts) : alerts[i].acknowledged

\* C6: a committed reading adds exactly one alert if fireRiskIndex >= 80 or
\* flame1 or flame2 or dB >= 100, and none otherwise, also when an
\* unacknowledged alert of the same node is in the list already.
C6_AlertStep ==
    \A req \in MainRequests : (IngestMain(req) /\ Committed) =>
        LET b == JsonParse(req.raw)
            qualifies ==
                \/ NewEntry.record.computed.pffi >= 80
                \/ b.flame1
                \/ b.flame2
                \/ b.dB >= 100
        IN  IF qualifies
            THEN /\ Len(alerts') = Min(Len(alerts) + 1, ALERTS_MAX)
                 /\ alerts'[1].nodeId = b.nodeId
                 /\ ~alerts'[1].acknowledged
                 /\ Tail(alerts') = FirstN(alerts, ALERTS_MAX - 1)
            ELSE alerts' = alerts

C6_AlertIffThreshold == [][C6_AlertStep]_vars

\* Two unacknowledged alerts of one node, the newer raised by this process
C6_Witness ==
    /\ Len(alerts) >= 2
    /\ alerts[1].nodeId = alerts[2].nodeId
    /\ ~alerts[1].acknowledged
    /\ ~alerts[2].acknowledged
    /\ alerts[1].timestamp >= 0

\* C7: an ingest request passes authentication if and only if its device
\* identity is in the device-secret table and the HMAC under that device's
\* secret equals the received signature (here: in the main server, over the
\* bytes that server hashes).
C7_MainAuthRejected ==
    /\ ~Committed
    /\ resp'.status \in {400, 401}
    /\ resp'.error \in {"missing headers", "invalid signature"}

C7_Step ==
    \A req \in MainRequests : IngestMain(req) =>
        (~C7_MainAuthRejected <=>
            /\ req.dev \in DOMAIN DEVICE_SECRETS
            /\ req.sig = computeHmacHex(DEVICE_SECRETS[req.dev],
                                        JsonStringify(JsonParse(req.raw))))

C7_AuthIffKnownDeviceAndSignature == [][C7_Step]_vars

\* C8: an ingest request rejected for authentication (device identity or
\* signature missing, device unknown, signature not matching) is answered
\* 400 or 401, leaves node records, histories and alerts unchanged and starts
\* no durable write, in each of the three servers.
C8_MainAuthFails(req) ==
    \/ req.sig = NoHeader
    \/ req.dev = NoDevice
    \/ req.sig # computeHmacHex(DEVICE_SECRET, JsonStringify(JsonParse(req.raw)))

C8_HdrAuthFails(req) ==
    \/ req.dev = NoDevice
    \/ req.sig = NoHeader
    \/ req.dev \notin DOMAIN DEVICE_SECRETS
    \/ req.raw # NoBytes /\ req.sig # computeHmacHex(DEVICE_SECRETS[req.dev], req.raw)

C8_EnvAuthFails(envelope) ==
    \/ envelope.d = NoDevice
    \/ envelope.s = NoHeader
    \/ envelope.s # computeHmacHex(DEVICE_SECRET, JsonStringify(envelope.p))

C8_Frame ==
    UNCHANGED <<nodes, alerts, pendingWrites, earlyWrites, inflight, hdrInflight,
                envInflight, remoteRows>>

C8_Step ==
    /\ \A req \in MainRequests : (IngestMain(req) /\ C8_MainAuthFails(req)) =>
          (resp'.kind = "ingest" /\ resp'.status \in {400, 401} /\ C8_Frame)
    /\ \A req \in HdrRequests : (HdrIngest(req) /\ C8_HdrAuthFails(req)) =>
          (resp'.kind = "hdr" /\ resp'.status \in {400, 401} /\ C8_Frame)
    /\ \A envelope \in Envelopes : (EnvIngest(envelope) /\ C8_EnvAuthFails(envelope)) =>
          (resp'.kind = "env" /\ resp'.status \in {400, 401} /\ C8_Frame)

C8_AuthFailureHasNoEffect == [][C8_Step]_vars

\* A signature mismatch answered while the store holds a node, an alert and
\* an unfinished insert
C8_Witness ==
    /\ resp.kind = "ingest"
    /\ resp.status = 401
    /\ DOMAIN nodes # {}
    /\ Len(alerts) >= 1
    /\ Len(inflight) >= 1

\* C9: a correctly signed request whose body lacks a required field is
\* answered 400 naming the first missing field, before any metric is
\* computed, with node records, histories and alerts unchanged and no durable
\* write.
C9_Fields ==
    <<"zoneId", "nodeId", "temp_c", "hum_pct", "mq2", "mq135", "flame1", "flame2",
      "dB", "timestamp">>

C9_Lacks(b) == {i \in 1..Len(C9_Fields) : C9_Fields[i] \notin DOMAIN b}

C9_Rejects(b, prefix) ==
    /\ resp'.status = 400
    /\ \E i \in C9_Lacks(b) :
          /\ \A j \in C9_Lacks(b) : i <= j
          /\ resp'.error = prefix \o C9_Fields[i]
    /\ metricRuns' = metricRuns
    /\ C8_Frame

C9_Step ==
    /\ \A req \in MainRequests :
          (IngestMain(req) /\ ~C8_MainAuthFails(req) /\ C9_Lacks(JsonParse(req.raw)) # {})
              => C9_Rejects(JsonParse(req.raw), "missing ")
    /\ \A req \in HdrRequests :
          (/\ HdrIngest(req)
           /\ ~C8_HdrAuthFails(req)
           /\ req.raw # NoBytes
           /\ C9_Lacks(JsonParse(req.raw)) # {})
              => C9_Rejects(JsonParse(req.raw), "Missing key: ")

C10_Step ==
    /\ \A i \in 1..Len(inflight) : (InsertError(i) \/ InsertThrows(i)) =>
          resp' = Ok("ingest", <<inflight[i].record.computed.pffi>>)
    /\ WriteFails => UNCHANGED resp

C10_WriteFailureKeepsSuccess == [][C10_Step]_vars

-----------------------------------------------------------------------------
(* The servers with the progress their runtime guarantees: a snapshot      *)
(* write settles, the startup load ends, the clock advances.  Nothing      *)
(* makes a client send a request, and nothing makes the remote table       *)
(* answer an insert.                                                       *)

Fairness ==
    /\ WF_vars(WriteLands \/ WriteFails)
    /\ WF_vars((\E st \in LoadResults : LoadOk(st)) \/ LoadErr)
    /\ WF_vars(Tick)

SpecLive == Init /\ [][Next]_vars /\ Fairness

\* C11: once a reading is committed its request is eventually answered, also
\* when the remote insert or the snapshot write never completes.
C11_ResponseDoesNotWait == (Len(inflight) > 0) ~> (Len(inflight) = 0)


\* C12: the bytes whose HMAC decides an ingest request are the raw body bytes
\* of that request: the main server lets a request past its signature check
\* exactly when the signature is the HMAC of the bytes received, and the
\* bytes server.js verifies are the ones the request itself carried.
C12_MainStep ==
    \A req \in MainRequests :
        (IngestMain(req) /\ req.sig # NoHeader /\ req.dev # NoDevice) =>
            ((Committed \/ resp'.status # 401)
                <=> req.sig = computeHmacHex(DEVICE_SECRET, req.raw))

C12_HdrStep ==
    \A req \in HdrRequests : HdrIngest(req) => rawBodyBuffer' = req.raw

C12_HmacOverOwnRawBytes == [][C12_MainStep /\ C12_HdrStep]_vars

-----------------------------------------------------------------------------
(* The main server, its store loaded from the empty file readDataFile      *)
(* creates, on readings at the edges of the input space: the extremes of   *)
(* the valid ranges, raw values outside them, and identifiers that hold    *)
(* the separator of the node key.                                          *)

EHot ==
    Reading("n1", 60, 0, 1000, 1000, TRUE, TRUE, 60, 21) @@ [sound_confidence |-> 100]
ECold == Reading("n1", 0, 100, 0, 0, FALSE, FALSE, 60, 22)
ENoisy ==
    Reading("n2", 20, 55, 100, 100, FALSE, FALSE, 60, 23) @@ [sound_confidence |-> 150]
ENegative ==
    Reading("n2", -10, 120, -100, -100, FALSE, FALSE, 60, 24) @@ [sound_confidence |-> -50]
EKeyA == [BLow EXCEPT !.nodeId = "n1/x", !.timestamp = 25]
EKeyB == [BLow EXCEPT !.zoneId = "z1/n1", !.nodeId = "x", !.timestamp = 26]

EdgeBodies == {EHot, ECold, ENoisy, ENegative, EKeyA, EKeyB}

EdgeRequests ==
    { [dev |-> "node_01", sig |-> computeHmacHex(DEVICE_SECRET, Bytes(b, "compact")),
       raw |-> Bytes(b, "compact")] : b \in EdgeBodies }
    \cup
    { [dev |-> "node_01", sig |-> computeHmacHex(DEVICE_SECRET, Bytes(EHot, "spaced")),
       raw |-> Bytes(EHot, "spaced")] }

InitEdge ==
    /\ dataFile = "none"
    /\ loaded = TRUE
    /\ nodes = ReadDataFile(dataFile).nodes
    /\ alerts = ReadDataFile(dataFile).alerts
    /\ pendingWrites = 0
    /\ earlyWrites = {}
    /\ inflight = <<>>
    /\ remoteRows = 0
    /\ now = 0
    /\ nreq = 0
    /\ resp = NoResp
    /\ metricRuns = 0
    /\ accepted = EmptyFun
    /\ rawBodyBuffer = NoBytes
    /\ hdrInflight = 0
    /\ envInflight = 0

NextEdge ==
    \/ \E req \in EdgeRequests : IngestMain(req)
    \/ \E i \in 1..Len(inflight) : InsertStored(i)
    \/ \E i \in 1..Len(inflight) : InsertError(i)
    \/ \E i \in 1..Len(inflight) : InsertThrows(i)
    \/ \E id \in AckIds : Ack(id)
    \/ WriteLands
    \/ WriteFails
    \/ Tick

SpecEdge == InitEdge /\ [][NextEdge]_vars


\* Every ingest request of the three request sets of the main server
IngestRequests == MainRequests \cup FullRequests \cup EdgeRequests

\* C13: a reading with all required fields, hum_pct in 0..100 and
\* sound_confidence in 0..100, signed correctly over its bytes, is accepted,
\* and the response to it is 200 with a fire-risk index that is an integer
\* in 0..100.
C13_Valid(b) ==
    /\ C9_Lacks(b) = {}
    /\ b.hum_pct \in 0..100
    /\ "sound_confidence" \in DOMAIN b => b.sound_confidence \in 0..100

C13_ValidRecord(record) ==
    /\ record.hum_pct \in 0..100
    /\ record.sound_confidence \in 0..100

C13_Accepts ==
    \A req \in IngestRequests :
        (/\ IngestMain(req)
         /\ req.dev # NoDevice
         /\ req.sig = computeHmacHex(DEVICE_SECRET, req.raw)
         /\ C13_Valid(JsonParse(req.raw)))
            => (Committed /\ NewEntry.record.computed.pffi \in 0..100)

C13_Answers ==
    \A i \in 1..Len(inflight) :
        (/\ InsertStored(i) \/ InsertError(i) \/ InsertThrows(i)
         /\ C13_ValidRecord(inflight[i].record))
            => /\ resp'.status = 200
               /\ Len(resp'.pffi) = 1
               /\ resp'.pffi[1] \in 0..100

C13_ValidReadingGetsIndex == [][C13_Accepts /\ C13_Answers]_vars


\* C14: for every reading computePFFI was applied to, raw values outside
\* their ranges included, each of the six contributions lies in [0, 1] (0 to
\* 4500 on the scale of this module) and the index lies in [0, 100].
C14_Unit == 0..4500

C14_ContributionsInRange ==
    \A k \in DOMAIN nodes :
        LET r == nodes[k].latest
        IN  /\ Tf(r.temp_c) \in C14_Unit
            /\ Hf(r.hum_pct) \in C14_Unit
            /\ Smoke(r.mq2) \in C14_Unit
            /\ Gas(r.mq135) \in C14_Unit
            /\ Flame(r.flame1 = 1, r.flame2 = 1) \in C14_Unit
            /\ Sound(r.sound_confidence) \in C14_Unit
            /\ r.computed.pffi \in 0..100


\* C15: in every reachable state the alerts of the list have pairwise
\* distinct ids.
C15_AlertIdsDistinct ==
    \A i, j \in 1..Len(alerts) : alerts[i].id = alerts[j].id => i = j


\* C16: a node record, once it exists, exists in every later state, and it
\* changes only in a step that commits a reading for its key.
C16_Step ==
    \A k \in DOMAIN nodes :
        /\ k \in DOMAIN nodes'
        /\ nodes'[k] # nodes[k] => (Committed /\ KeyOf(NewEntry.record) = k)

C16_NodeRecordsPersist == [][C16_Step]_vars


\* C17: the acknowledged flag of an alert changes only from false to true
\* and only in an acknowledge step for its id; an ingest changes no field of
\* an alert that is in the list; an alert leaves the list only as the tail of
\* a full list that takes a new alert.
C17_AckStep ==
    \A id \in AckIds : Ack(id) =>
        /\ Len(alerts') = Len(alerts)
        /\ \A i \in 1..Len(alerts) :
              \/ alerts'[i] = alerts[i]
              \/ /\ alerts[i].id = id
                 /\ ~alerts[i].acknowledged
                 /\ alerts'[i] = [alerts[i] EXCEPT !.acknowledged = TRUE]

C17_IngestStep ==
    Committed =>
        \/ alerts' = alerts
        \/ Tail(alerts') = FirstN(alerts, ALERTS_MAX - 1)
             /\ (Len(alerts') = Len(alerts) + 1 \/ Len(alerts) = ALERTS_MAX)

C17_OtherStep ==
    (~Committed /\ ~(\E id \in AckIds : Ack(id))) =>
        \/ alerts' = alerts
        \/ \A i \in 1..Len(alerts) : \E j \in 1..Len(alerts') : alerts'[j] = alerts[i]

C17_AlertsOnlyAckedOrEvicted ==
    [][C17_AckStep /\ C17_IngestStep /\ C17_OtherStep]_vars


\* C18: a committed reading of one (zoneId, nodeId) pair leaves the node
\* record of every other pair as it was: the readings of two distinct pairs
\* are kept in two distinct records.
C18_PairOf(record) == <<record.zoneId, record.nodeId>>

C18_Step ==
    Committed =>
        \A k \in DOMAIN nodes :
            C18_PairOf(nodes[k].latest) # C18_PairOf(NewEntry.record)
                => (k \in DOMAIN nodes' /\ nodes'[k] = nodes[k])

C18_DistinctPairsDistinctRecords == [][C18_Step]_vars


\* C19: in every reachable state each node record has a non-empty history
\* whose last entry carries the timestamp, temp_c, fire-risk index and dB of
\* its latest reading; a commit makes its reading the latest of its key and
\* puts its sample behind the samples the key had, whatever requests are in
\* flight.
C19_LatestIsLast ==
    \A k \in DOMAIN nodes :
        LET h == nodes[k].history
            r == nodes[k].latest
        IN  /\ Len(h) >= 1
            /\ h[Len(h)].timestamp = r.timestamp
            /\ h[Len(h)].temp_c = r.temp_c
            /\ h[Len(h)].pffi = r.computed.pffi
            /\ h[Len(h)].dB = r.dB

C19_CommitStep ==
    Committed =>
        LET r == NewEntry.record
            k == KeyOf(r)
            before == IF k \in DOMAIN nodes THEN nodes[k].history ELSE <<>>
            sample == [timestamp |-> r.timestamp, temp_c |-> r.temp_c,
                       pffi |-> r.computed.pffi, dB |-> r.dB]
        IN  /\ k \in DOMAIN nodes'
            /\ nodes'[k].latest = r
            /\ nodes'[k].history = LastN(Append(before, sample), HISTORY_MAX)

C19_LatestIsLastSample == [][C19_CommitStep]_vars /\ []C19_LatestIsLast

\* Two different readings of one key were committed while both requests are
\* still in flight; the later one is the latest
C19_Witness ==
    /\ Len(inflight) = 2
    /\ inflight[1].record # inflight[2].record
    /\ KeyOf(inflight[1].record) = KeyOf(inflight[2].record)
    /\ KeyOf(inflight[2].record) \in DOMAIN nodes
    /\ nodes[KeyOf(inflight[2].record)].latest = inflight[2].record
    /\ Len(nodes[KeyOf(inflight[2].record)].history) >= 2


\* C20: an ingest request answered with a status other than 200 has left the
\* node records, the histories and the alerts as they were: a request
\* rejected before the commit changes none of them, and a request whose
\* reading was committed is answered 200.
C20_RejectStep ==
    \A req \in IngestRequests :
        (IngestMain(req) /\ ~Committed) =>
            (resp'.status \in {400, 401} /\ UNCHANGED <<nodes, alerts>>)

C20_AnswerStep ==
    \A i \in 1..Len(inflight) :
        (InsertStored(i) \/ InsertError(i) \/ InsertThrows(i)) => resp'.status = 200

C20_IngestAllOrNothing == [][C20_RejectStep /\ C20_AnswerStep]_vars

=============================================================================
